---- MODULE Spec2Model ----
(***************************************************************************)
(* Model of src/app.py: the query-generation-and-search pipeline           *)
(* (generate_queries, search_papers) and the Streamlit script that drives  *)
(* it through st.session_state.                                            *)
(*                                                                         *)
(* Three specifications share the module:                                  *)
(*   SpecGen    - generate_queries applied to one model response           *)
(*   SpecSearch - search_papers applied to one upstream response           *)
(*   SpecApp    - the script reruns triggered by the user's widget actions *)
(***************************************************************************)
EXTENDS Integers, Sequences, FiniteSets, TLC

VARIABLES response, g_pc, g_result,
          upstream, s_pc, s_result,
          ai_enabled, topic, queries, papers, selected_query,
          error_msg, last_run, papers_query

genVars == <<response, g_pc, g_result>>
searchVars == <<upstream, s_pc, s_result>>
appVars == <<ai_enabled, topic, queries, papers, selected_query,
             error_msg, last_run, papers_query>>
vars == <<genVars, searchVars, appVars>>

(***************************************************************************)
(* Bounds                                                                  *)
(***************************************************************************)
\* longest model response text, in symbols
MaxTextLen == 6
\* longest upstream data array drawn from the full pool of records
MaxDataLen == 3
\* longest upstream data array drawn from the two-record pool
MaxLongDataLen == 11

(***************************************************************************)
(* Text.  A text is a sequence of symbols.  FENCE is the triple-backtick   *)
(* marker, NL the newline, SP a blank, TAG any other visible character     *)
(* (a language tag, prose) and DOC the serialisation of one JSON document. *)
(***************************************************************************)
FENCE == "fence"
NL == "\n"
SP == " "
TAG == "json"
DOC == "{..}"
Symbols == {FENCE, NL, SP, TAG, DOC}
Whitespace == {NL, SP}

Texts == UNION {[1..n -> Symbols] : n \in 0..MaxTextLen}

\* str.strip(): drop leading and trailing whitespace
RECURSIVE LStrip(_)
LStrip(s) == IF s # <<>> /\ Head(s) \in Whitespace THEN LStrip(Tail(s)) ELSE s

RECURSIVE RStrip(_)
RStrip(s) == IF s # <<>> /\ s[Len(s)] \in Whitespace
             THEN RStrip(SubSeq(s, 1, Len(s) - 1)) ELSE s

Strip(s) == RStrip(LStrip(s))

\* str.startswith(marker) / str.endswith(marker)
StartsWithFence(s) == s # <<>> /\ Head(s) = FENCE
EndsWithFence(s) == s # <<>> /\ s[Len(s)] = FENCE

\* positions of a symbol in a text
Positions(s, c) == {i \in 1..Len(s) : s[i] = c}
Min(S) == CHOOSE x \in S : \A y \in S : x <= y
Max(S) == CHOOSE x \in S : \A y \in S : x >= y

\* text.split(NL, 1): a list of one or two parts
SplitFirstNewline(s) ==
    IF Positions(s, NL) = {} THEN <<s>>
    ELSE LET i == Min(Positions(s, NL))
         IN <<SubSeq(s, 1, i - 1), SubSeq(s, i + 1, Len(s))>>

\* text.rsplit(marker, 1)[0]: what precedes the last marker (all of it if none)
RSplitFence(s) ==
    IF Positions(s, FENCE) = {} THEN s
    ELSE SubSeq(s, 1, Max(Positions(s, FENCE)) - 1)

(***************************************************************************)
(* JSON values, as json.loads and resp.json() return them.  A string holds *)
(* s, a number holds n, an array holds n elements, an object maps the keys *)
(* in DOMAIN items to strings.                                             *)
(***************************************************************************)
NoItems == [k \in {} |-> ""]
JNull == [kind |-> "null", s |-> "", n |-> 0, items |-> NoItems]
JString(x) == [kind |-> "string", s |-> x, n |-> 0, items |-> NoItems]
JNumber(k) == [kind |-> "number", s |-> "", n |-> k, items |-> NoItems]
JArray(k) == [kind |-> "array", s |-> "", n |-> k, items |-> NoItems]
JObject(f) == [kind |-> "object", s |-> "", n |-> 0, items |-> f]

\* the truth value Python gives a value: None, "", 0, [] and {} are false
Truthy(v) ==
    CASE v.kind = "null" -> FALSE
      [] v.kind = "string" -> v.s # ""
      [] v.kind = "number" -> v.n # 0
      [] v.kind = "array" -> v.n # 0
      [] v.kind = "object" -> DOMAIN v.items # {}

\* Optional values: None is the empty tuple, a value x is <<x>>
None == <<>>
Some(x) == <<x>>

VariantKeys == {"broad", "focused", "method"}
FullVariants == [broad |-> "qb", focused |-> "qf", method |-> "qm"]
OtherVariants == [broad |-> "rb", focused |-> "rf", method |-> "rm"]

\* documents the model may return
Docs == {JObject([k \in S |-> FullVariants[k]]) : S \in SUBSET VariantKeys}
        \cup {JObject(OtherVariants),
              JObject(FullVariants @@ ("extra" :> "qx")),
              JObject([FullVariants EXCEPT !.focused = ""]),
              JArray(3), JArray(0), JString("qb")}

(***************************************************************************)
(* generate_queries                                                        *)
(***************************************************************************)
\* The model call: it raises, or returns a text that serialises doc at DOC.
Responses == [raises : {TRUE}, text : {<<>>}, doc : {JNull}]
             \cup [raises : {FALSE}, text : Texts, doc : Docs]

\* lines 202-203: drop the opening fence line
OpenFence(text) ==
    IF StartsWithFence(text)
    THEN IF Len(SplitFirstNewline(text)) < 2
         THEN [error |-> TRUE, text |-> <<>>]
         ELSE [error |-> FALSE, text |-> SplitFirstNewline(text)[2]]
    ELSE [error |-> FALSE, text |-> text]

\* lines 204-205: drop the closing fence marker
\* (variant: the last marker is cut wherever it stands)
CloseFenceNoGuard(text) == RSplitFence(text)

CloseFence(text) == IF EndsWithFence(text) THEN RSplitFence(text) ELSE text

\* lines 200-206: the text handed to json.loads, or the IndexError of line 203
JsonInput(raw) ==
    LET opened == OpenFence(Strip(raw))
    IN IF opened.error THEN opened
       ELSE [error |-> FALSE, text |-> Strip(CloseFence(opened.text))]

\* json.loads: the text is one JSON document, or the parse fails
JsonLoads(text, doc) ==
    IF Strip(text) = <<DOC>>
    THEN [error |-> FALSE, value |-> doc]
    ELSE [error |-> TRUE, value |-> JNull]

GenerateQueries(r) ==
    IF r.raises
    THEN [status |-> "GenerationError", value |-> JNull, parsed |-> <<>>]
    ELSE LET input == JsonInput(r.text)
         IN IF input.error
            THEN [status |-> "IndexError", value |-> JNull, parsed |-> <<>>]
            ELSE LET loaded == JsonLoads(input.text, r.doc)
                 IN IF loaded.error
                    THEN [status |-> "JSONDecodeError", value |-> JNull,
                          parsed |-> input.text]
                    ELSE [status |-> "ok", value |-> loaded.value,
                          parsed |-> input.text]

NoResult == [status |-> "none", value |-> JNull, parsed |-> <<>>]

(***************************************************************************)
(* search_papers                                                           *)
(***************************************************************************)
\* the limit parameter of the request
PageLimit == 10

RequiredFields == {"paperId", "title", "abstract", "year", "authors", "url"}

\* a record of the data array: a JSON object, as a map from its keys to values
Paper(id) == [paperId |-> JString(id), title |-> JString("T"),
              abstract |-> JString("A"), year |-> JNumber(2023),
              authors |-> JArray(1), url |-> JString("u")]

\* the value of a field's type that Python counts as false
FalsyOf(f) == CASE f = "year" -> JNumber(0)
                [] f = "authors" -> JArray(0)
                [] OTHER -> JString("")

Without(p, f) == [k \in DOMAIN p \ {f} |-> p[k]]

\* complete records, and records with one field absent, null or false
PaperPool ==
    {Paper("1"), Paper("2"),
     Paper("1") @@ ("venue" :> JString("V")) @@ ("citationCount" :> JNumber(0)),
     [paperId |-> JString("2"), title |-> JString("T2")]}
    \cup {Without(Paper("3"), f) : f \in RequiredFields}
    \cup {[Paper("3") EXCEPT ![f] = JNull] : f \in RequiredFields}
    \cup {[Paper("3") EXCEPT ![f] = FalsyOf(f)] : f \in RequiredFields}

SmallPool == {Paper("1"), Without(Paper("3"), "abstract")}

DataArrays == UNION {[1..k -> PaperPool] : k \in 0..MaxDataLen}
              \cup UNION {[1..k -> SmallPool] : k \in 0..MaxLongDataLen}

\* The outcome of requests.get: a timeout, or a final response with a status
\* and a JSON object body whose data key is absent or holds an array.
\* (requests follows redirects, so the final status is 2xx, 4xx or 5xx.)
ErrorStatuses == {400, 404, 429, 500}
Upstreams ==
    [kind : {"timeout"}, status : {0}, hasData : {FALSE}, data : {<<>>}]
    \cup [kind : {"response"}, status : {200, 204}, hasData : {FALSE}, data : {<<>>}]
    \cup [kind : {"response"}, status : {200}, hasData : {TRUE}, data : DataArrays]
    \cup [kind : {"response"}, status : ErrorStatuses, hasData : {TRUE},
          data : {<<>>, <<Paper("1")>>}]

\* p.get(f): the value of the key, None when the key is absent
Get(p, f) == IF f \in DOMAIN p THEN p[f] ELSE JNull

\* lines 223-230: the condition under which a record is kept
Complete(p) == \A f \in RequiredFields : Truthy(Get(p, f))

\* lines 221-231: the loop over data
\* (variant: a kept record is put in front of the list)
RECURSIVE FilterLoopPrepend(_, _)
FilterLoopPrepend(data, filtered) ==
    IF data = <<>> THEN filtered
    ELSE FilterLoopPrepend(Tail(data),
                           IF Complete(Head(data)) THEN <<Head(data)>> \o filtered
                           ELSE filtered)

\* (variant: a kept record is appended twice)
RECURSIVE FilterLoopAppendTwice(_, _)
FilterLoopAppendTwice(data, filtered) ==
    IF data = <<>> THEN filtered
    ELSE FilterLoopAppendTwice(Tail(data),
                               IF Complete(Head(data))
                               THEN Append(Append(filtered, Head(data)), Head(data))
                               ELSE filtered)

RECURSIVE FilterLoop(_, _)
FilterLoop(data, filtered) ==
    IF data = <<>> THEN filtered
    ELSE FilterLoop(Tail(data),
                    IF Complete(Head(data)) THEN Append(filtered, Head(data))
                    ELSE filtered)

\* resp.raise_for_status(): raises for 4xx and 5xx
RaiseForStatus(status) == 400 <= status /\ status < 600

\* resp.json().get("data", [])
DataOf(u) == IF u.hasData THEN u.data ELSE <<>>

\* the call: an exception, or the returned list (held in returned)
\* (variant: an error status is answered with the empty list)
SearchPapersEmptyOnError(u) ==
    IF u.kind = "timeout"
    THEN [status |-> "Timeout", returned |-> None]
    ELSE IF RaiseForStatus(u.status)
         THEN [status |-> "ok", returned |-> Some(<<>>)]
         ELSE [status |-> "ok", returned |-> Some(FilterLoop(DataOf(u), <<>>))]

SearchPapers(u) ==
    IF u.kind = "timeout"
    THEN [status |-> "Timeout", returned |-> None]
    ELSE IF RaiseForStatus(u.status)
         THEN [status |-> "HTTPError", returned |-> None]
         ELSE [status |-> "ok", returned |-> Some(FilterLoop(DataOf(u), <<>>))]

NoSearch == [status |-> "none", returned |-> None]
NoUpstream == [kind |-> "timeout", status |-> 0, hasData |-> FALSE, data |-> <<>>]
NoResponse == [raises |-> TRUE, text |-> <<>>, doc |-> JNull]

(***************************************************************************)
(* The script: st.session_state, the sidebar widgets, the button handlers  *)
(***************************************************************************)
GenErrorMsg == "Failed to generate queries"
SearchErrorMsg == "Search failed"

Topics == {"", "ta", "tb"}

\* st.session_state after lines 175-180; papers_query is a history variable:
\* the query of the search_papers call whose list papers holds
NoSession == [queries |-> None, papers |-> None, selected_query |-> None,
              papers_query |-> None]

Session == [queries |-> queries, papers |-> papers,
            selected_query |-> selected_query, papers_query |-> papers_query]

\* what a rerun of the script did: the widget that triggered it, the helper
\* it called and with what argument, and the session state it started from
NoCall == [fn |-> "none", arg |-> "", via |-> "none", failed |-> FALSE]
Run(trigger, call, before) ==
    [trigger |-> trigger, fn |-> call.fn, arg |-> call.arg, via |-> call.via,
     failed |-> call.failed, before |-> before]
NoRun == Run("start", NoCall, NoSession)

\* line 290: the condition of the action button handler
\* (variant: the topic is not tested)
ShouldHandleActionAnyTopic(action_btn, t) == action_btn

ShouldHandleAction(action_btn, t) == action_btn /\ t # ""

\* lines 292-298: the action button in AI mode
\* (variant: a failed generation clears the session state)
ActionGenerateClearOnFailure(sess, r) ==
    LET g == GenerateQueries(r)
        call == [fn |-> "generate_queries", arg |-> "", via |-> "none",
                 failed |-> g.status # "ok"]
    IN IF g.status = "ok"
       THEN [sess |-> [queries |-> Some(g.value), papers |-> None,
                       selected_query |-> None, papers_query |-> None],
             error |-> "", call |-> call]
       ELSE [sess |-> NoSession, error |-> GenErrorMsg, call |-> call]

ActionGenerate(sess, r) ==
    LET g == GenerateQueries(r)
        call == [fn |-> "generate_queries", arg |-> "", via |-> "none",
                 failed |-> g.status # "ok"]
    IN IF g.status = "ok"
       THEN [sess |-> [queries |-> Some(g.value), papers |-> None,
                       selected_query |-> None, papers_query |-> None],
             error |-> "", call |-> call]
       ELSE [sess |-> sess, error |-> GenErrorMsg, call |-> call]

\* lines 341-347 (and 301-307): store the query, search, store the outcome
SearchAndStore(sess, query, via, u) ==
    LET found == SearchPapers(u)
        call == [fn |-> "search_papers", arg |-> query, via |-> via,
                 failed |-> found.status # "ok"]
        selected == [sess EXCEPT !.selected_query = Some(query)]
    IN IF found.status = "ok"
       THEN [sess |-> [selected EXCEPT !.papers = found.returned,
                                       !.papers_query = Some(query)],
             error |-> "", call |-> call]
       ELSE [sess |-> [selected EXCEPT !.papers = None, !.papers_query = None],
             error |-> SearchErrorMsg, call |-> call]

\* lines 300-307: the action button with AI mode off
ActionSearch(sess, t, u) ==
    SearchAndStore([sess EXCEPT !.queries = None], t, "topic", u)

\* lines 321-339: the cards are drawn in this order; drawing the card of a key
\* the stored value lacks raises, so the later buttons are not drawn
KeyOrder == <<"broad", "focused", "method">>

ButtonDrawn(q, i) ==
    /\ q # None
    /\ Truthy(q[1])
    /\ q[1].kind = "object"
    /\ \A j \in 1..i : KeyOrder[j] \in DOMAIN q[1].items

\* lines 332, 340-347: the search button of the i-th card
\* (variant: selected_query is not assigned)
VariantSearchKeepSelected(sess, i, u) ==
    LET query_text == sess.queries[1].items[KeyOrder[i]]
        done == SearchAndStore(sess, query_text, "variant", u)
    IN [done EXCEPT !.sess.selected_query = sess.selected_query]

VariantSearch(sess, i, u) ==
    LET query_text == sess.queries[1].items[KeyOrder[i]]
    IN SearchAndStore(sess, query_text, "variant", u)

\* responses of the model and of the search service met in a session
AppResponses ==
    {NoResponse,
     [raises |-> FALSE, text |-> <<FENCE, TAG, NL, DOC, NL, FENCE>>,
      doc |-> JObject(FullVariants)],
     [raises |-> FALSE, text |-> <<DOC>>, doc |-> JObject(OtherVariants)],
     [raises |-> FALSE, text |-> <<DOC>>,
      doc |-> JObject([k \in {"broad", "focused"} |-> FullVariants[k]])],
     [raises |-> FALSE, text |-> <<DOC>>, doc |-> JArray(3)],
     [raises |-> FALSE, text |-> <<DOC>>, doc |-> JObject(NoItems)],
     [raises |-> FALSE, text |-> <<TAG, SP, TAG>>, doc |-> JObject(FullVariants)],
     [raises |-> FALSE, text |-> <<FENCE>>, doc |-> JObject(FullVariants)]}

AppUpstreams ==
    {NoUpstream,
     [kind |-> "response", status |-> 500, hasData |-> FALSE, data |-> <<>>],
     [kind |-> "response", status |-> 200, hasData |-> FALSE, data |-> <<>>],
     [kind |-> "response", status |-> 200, hasData |-> TRUE,
      data |-> <<Paper("1"), Without(Paper("3"), "abstract"), Paper("2")>>],
     [kind |-> "response", status |-> 200, hasData |-> TRUE,
      data |-> <<Paper("2")>>]}

AppIdle ==
    /\ ai_enabled = TRUE
    /\ topic = ""
    /\ queries = None
    /\ papers = None
    /\ selected_query = None
    /\ error_msg = ""
    /\ last_run = NoRun
    /\ papers_query = None

\* the end of a rerun: the session state, the error shown, the record
Finish(trigger, outcome) ==
    /\ queries' = outcome.sess.queries
    /\ papers' = outcome.sess.papers
    /\ selected_query' = outcome.sess.selected_query
    /\ papers_query' = outcome.sess.papers_query
    /\ error_msg' = outcome.error
    /\ last_run' = Run(trigger, outcome.call, Session)

Nothing == [sess |-> Session, error |-> "", call |-> NoCall]

\* line 268: the user flips the toggle; the script reruns, no button pressed
ToggleAI ==
    /\ ai_enabled' = ~ai_enabled
    /\ Finish("toggle", Nothing)
    /\ UNCHANGED <<topic, genVars, searchVars>>

\* line 273: the user commits another text; the script reruns
EnterTopic(t) ==
    /\ t # topic
    /\ topic' = t
    /\ Finish("topic", Nothing)
    /\ UNCHANGED <<ai_enabled, genVars, searchVars>>

\* lines 279-281, 290-307: the user presses the action button
PressAction(r, u) ==
    /\ Finish("action",
              IF ShouldHandleAction(TRUE, topic)
              THEN IF ai_enabled THEN ActionGenerate(Session, r)
                   ELSE ActionSearch(Session, topic, u)
              ELSE Nothing)
    /\ UNCHANGED <<ai_enabled, topic, genVars, searchVars>>

\* lines 340-347: the user presses the search button of the i-th card, which
\* the previous run drew
PressVariant(i, u) ==
    /\ ButtonDrawn(queries, i)
    /\ Finish("variant", VariantSearch(Session, i, u))
    /\ UNCHANGED <<ai_enabled, topic, genVars, searchVars>>

GenIdle == response = NoResponse /\ g_pc = "idle" /\ g_result = NoResult
SearchIdle == upstream = NoUpstream /\ s_pc = "idle" /\ s_result = NoSearch

InitApp == AppIdle /\ GenIdle /\ SearchIdle

NextApp ==
    \/ ToggleAI
    \/ \E t \in Topics : EnterTopic(t)
    \/ \E r \in AppResponses, u \in AppUpstreams : PressAction(r, u)
    \/ \E i \in 1..3, u \in AppUpstreams : PressVariant(i, u)

SpecApp == InitApp /\ [][NextApp]_vars

(***************************************************************************)
(* Specifications of the two functions                                     *)
(***************************************************************************)
InitGen ==
    /\ response \in Responses
    /\ g_pc = "call"
    /\ g_result = NoResult
    /\ SearchIdle
    /\ AppIdle

CallGenerateQueries ==
    /\ g_pc = "call"
    /\ g_result' = GenerateQueries(response)
    /\ g_pc' = "done"
    /\ UNCHANGED <<response, searchVars, appVars>>

NextGen == CallGenerateQueries

SpecGen == InitGen /\ [][NextGen]_vars

InitSearch ==
    /\ upstream \in Upstreams
    /\ s_pc = "call"
    /\ s_result = NoSearch
    /\ GenIdle
    /\ AppIdle

CallSearchPapers ==
    /\ s_pc = "call"
    /\ s_result' = SearchPapers(upstream)
    /\ s_pc' = "done"
    /\ UNCHANGED <<upstream, genVars, appVars>>

NextSearch == CallSearchPapers

SpecSearch == InitSearch /\ [][NextSearch]_vars

(***************************************************************************)
(* Properties of generate_queries (SpecGen)                                *)
(***************************************************************************)
ValidVariantSet(v) ==
    /\ v.kind = "object"
    /\ DOMAIN v.items = VariantKeys
    /\ \A k \in VariantKeys : v.items[k] # ""

GenFailed == g_result.status \in {"GenerationError", "IndexError", "JSONDecodeError"}

\* C1: generate_queries returns a mapping with exactly the keys broad, focused
\* and method, each mapped to a non-empty string, or it fails with an error.
C1_ValidSetOrError ==
    g_pc = "done" => (GenFailed \/ (g_result.status = "ok"
                                    /\ ValidVariantSet(g_result.value)))

\* the response text as line 200 leaves it
Trimmed == Strip(response.text)

\* an opening fence line ended by a newline, a body, a closing marker
Wrapped(t) == StartsWithFence(t) /\ EndsWithFence(t) /\ Positions(t, NL) # {}
Body(t) == SubSeq(t, Min(Positions(t, NL)) + 1, Len(t) - 1)

\* a marker with no line after it
FenceWithoutLine(t) == StartsWithFence(t) /\ Positions(t, NL) = {}

\* C7 (first half): of a fenced response the JSON parser receives the body
\* (up to the whitespace around it): the opening fence line and the closing
\* marker are removed and nothing else.
C7_ParserReceivesBody ==
    (g_pc = "done" /\ ~response.raises /\ Wrapped(Trimmed))
        => /\ g_result.status \in {"ok", "JSONDecodeError"}
           /\ g_result.parsed = Strip(Body(Trimmed))

\* C7: of a fenced response the JSON parser receives the body, and a response
\* that is a fence marker with no following line is a malformed response
\* (the failure of the JSON parse), not some other failure.
C7_FenceBodyOrMalformed ==
    /\ C7_ParserReceivesBody
    /\ (g_pc = "done" /\ ~response.raises /\ FenceWithoutLine(Trimmed))
           => g_result.status = "JSONDecodeError"

\* C8 as stated: for a response text that neither starts nor ends with the
\* marker, the text passed to the JSON parser is that text unchanged, and
\* stripping it again changes nothing.
C8_UnfencedTextUnchanged ==
    (g_pc = "done" /\ ~response.raises
     /\ ~StartsWithFence(response.text) /\ ~EndsWithFence(response.text))
        => /\ g_result.status \in {"ok", "JSONDecodeError"}
           /\ g_result.parsed = response.text
           /\ JsonInput(g_result.parsed) = [error |-> FALSE, text |-> g_result.parsed]

\* C8 amended: for a response text whose whitespace-trimmed form neither
\* starts nor ends with the marker, the text passed to the JSON parser is that
\* trimmed form, and stripping it again changes nothing.
C8_TrimmedUnfencedTextUnchanged ==
    (g_pc = "done" /\ ~response.raises
     /\ ~StartsWithFence(Trimmed) /\ ~EndsWithFence(Trimmed))
        => /\ g_result.status \in {"ok", "JSONDecodeError"}
           /\ g_result.parsed = Trimmed
           /\ JsonInput(g_result.parsed) = [error |-> FALSE, text |-> g_result.parsed]

\* an unfenced response with whitespace around it and a marker inside it
C8_Witness ==
    /\ g_pc = "done" /\ ~response.raises
    /\ ~StartsWithFence(Trimmed) /\ ~EndsWithFence(Trimmed)
    /\ response.text # Trimmed
    /\ Positions(Trimmed, FENCE) # {}
    /\ g_result.parsed = Trimmed

(***************************************************************************)
(* Properties of search_papers (SpecSearch)                                *)
(***************************************************************************)
SearchOk == s_pc = "done" /\ s_result.status = "ok"
Returned == s_result.returned[1]
Range(seq) == {seq[i] : i \in 1..Len(seq)}

\* a required field that is present, not null and not empty
PresentNonEmpty(p, f) ==
    /\ f \in DOMAIN p
    /\ p[f].kind # "null"
    /\ p[f].kind = "string" => p[f].s # ""
    /\ p[f].kind = "array" => p[f].n # 0

AllPresentNonEmpty(p) == \A f \in RequiredFields : PresentNonEmpty(p, f)

\* C2 (first half): every returned record has the six required fields
\* present and non-empty.
C2_ReturnedAreComplete ==
    SearchOk => \A i \in 1..Len(Returned) : AllPresentNonEmpty(Returned[i])

\* C2: every returned record has the six required fields present and
\* non-empty, and every upstream record that has them is returned.
C2_CompleteIffRetained ==
    SearchOk => /\ \A i \in 1..Len(Returned) : AllPresentNonEmpty(Returned[i])
                /\ \A j \in 1..Len(DataOf(upstream)) :
                       AllPresentNonEmpty(DataOf(upstream)[j])
                           => DataOf(upstream)[j] \in Range(Returned)

RECURSIVE IsSubsequence(_, _)
IsSubsequence(a, b) ==
    IF a = <<>> THEN TRUE
    ELSE IF b = <<>> THEN FALSE
    ELSE IF Head(a) = Head(b) THEN IsSubsequence(Tail(a), Tail(b))
    ELSE IsSubsequence(a, Tail(b))

\* C3: the returned list is a subsequence of the upstream data array: the
\* retained records in upstream order, none added, duplicated or modified.
C3_ReturnedIsSubsequence ==
    SearchOk => IsSubsequence(Returned, DataOf(upstream))

\* two different records retained around a dropped one
C3_Witness ==
    /\ SearchOk
    /\ Len(DataOf(upstream)) = 3
    /\ Len(Returned) = 2
    /\ Returned[1] # Returned[2]
    /\ ~Complete(DataOf(upstream)[2])

\* C4 as stated: the returned list has between 0 and 10 elements and no more
\* than the upstream data array.
C4_AtMostPageLimit ==
    SearchOk => /\ Len(Returned) \in 0..PageLimit
                /\ Len(Returned) <= Len(DataOf(upstream))

\* C4 amended: the returned list has no more elements than the upstream data
\* array, hence at most 10 whenever the upstream array has at most 10.
C4_AtMostUpstreamLength ==
    SearchOk => /\ Len(Returned) <= Len(DataOf(upstream))
                /\ Len(DataOf(upstream)) <= PageLimit => Len(Returned) <= PageLimit

\* an upstream array longer than the limit, filtered down to the limit
C4_Witness ==
    /\ SearchOk
    /\ Len(DataOf(upstream)) = PageLimit + 1
    /\ Len(Returned) = PageLimit

SuccessStatus == upstream.kind = "response" /\ 200 <= upstream.status
                 /\ upstream.status < 300

C6_FailureKeepsResults ==
    last_run.failed => /\ error_msg # ""
                       /\ papers = last_run.before.papers
                       /\ queries = last_run.before.queries

\* C6 amended: a failed generation shows its error and leaves the stored
\* variants, papers and selected query unchanged; a failed search shows its
\* error, sets papers to None and selected_query to the attempted query, and
\* the stored variants are unchanged after a variant search and None after a
\* raw-topic search.
C6_FailureEffects ==
    /\ last_run.failed <=> error_msg # ""
    /\ (last_run.failed /\ last_run.fn = "generate_queries")
           => /\ error_msg = GenErrorMsg
              /\ queries = last_run.before.queries
              /\ papers = last_run.before.papers
              /\ selected_query = last_run.before.selected_query
    /\ (last_run.failed /\ last_run.fn = "search_papers")
           => /\ error_msg = SearchErrorMsg
              /\ papers = None
              /\ selected_query = Some(last_run.arg)
              /\ last_run.via = "variant" => queries = last_run.before.queries
              /\ last_run.via = "topic" => queries = None

\* a generation fails while a papers list and a variant set are stored
C6_Witness ==
    /\ last_run.failed
    /\ last_run.fn = "generate_queries"
    /\ last_run.before.papers # None
    /\ last_run.before.queries # None
    /\ papers = last_run.before.papers
    /\ queries = last_run.before.queries

\* the values the stored variant set maps the three keys to
HeldVariants ==
    IF queries # None /\ queries[1].kind = "object"
    THEN {queries[1].items[k] : k \in VariantKeys \cap DOMAIN queries[1].items}
    ELSE {}

SearchedRawTopic == last_run.via = "topic" /\ last_run.arg = topic /\ ~ai_enabled
SearchedVariant == last_run.via = "variant" /\ last_run.arg \in HeldVariants

\* C9 as stated: the query passed to search_papers is the raw topic, and then
\* AI mode is off, or a value of the stored variant set; generate_queries is
\* called only in AI mode; neither is called when the topic is empty.
C9_CallsFollowMode ==
    /\ last_run.fn = "search_papers" => (SearchedRawTopic \/ SearchedVariant)
    /\ last_run.fn = "generate_queries" => ai_enabled
    /\ last_run.fn # "none" => topic # ""

\* C9 amended: the query passed to search_papers is the raw topic, and then
\* AI mode is off, or a value of the stored variant set; generate_queries is
\* called only in AI mode; the action button calls neither when the topic is
\* empty (a variant's search button searches whatever the topic field holds).
C9_CallsFollowModeActionTopic ==
    /\ last_run.fn = "search_papers" => (SearchedRawTopic \/ SearchedVariant)
    /\ last_run.fn = "generate_queries" => ai_enabled
    /\ (last_run.trigger = "action" /\ last_run.fn # "none") => topic # ""
    /\ last_run.trigger \in {"toggle", "topic", "start"} => last_run.fn = "none"

\* a variant is searched while the topic field is empty and AI mode is off
C9_Witness ==
    /\ last_run.trigger = "variant"
    /\ last_run.fn = "search_papers"
    /\ last_run.arg \in HeldVariants
    /\ topic = ""
    /\ ~ai_enabled

====
